---- MODULE Spec2Model ----
(***************************************************************************)
(* State-machine model of the C-callable boundary layer in src/src/api.rs  *)
(* (filecoin-ffi): the four dispatchers verify_seal, verify_post,          *)
(* verify_piece_inclusion_proof and generate_piece_commitment, the byte-   *)
(* capacity query get_max_user_bytes_per_staged_sector and the four        *)
(* response destroyers.                                                    *)
(*                                                                         *)
(* The proof library (filecoin_proofs) is the environment: what it returns *)
(* to a call is chosen nondeterministically at the step that calls it and  *)
(* recorded.  crate::helpers and crate::responses are not part of the      *)
(* source at hand; their operators below follow the written description of *)
(* the decoder and of the default response.                                *)
(***************************************************************************)
EXTENDS Integers, Sequences, FiniteSets, TLC

VARIABLES
    pc,         \* pc[t]: position of caller thread t inside a dispatcher
    op,         \* op[t]: the exported function thread t called last
    args,       \* args[t]: the arguments of that call
    bs,         \* bs[t]: the decoded proof bytes (a Result)
    result,     \* result[t]: the `result` local of the dispatcher
    response,   \* response[t]: the `response` local of the dispatcher
    invoked,    \* invoked[t]: the library calls made during the call, in order
    ret,        \* ret[t]: the value the call returned (an address, or a u64)
    mark,       \* mark[t]: the length of the log when thread t's call began
    log,        \* FCPFFI_LOG: the process-wide logger, a sequence of entries
    heap,       \* heap[a]: the allocation at address a
    released,   \* released[i]: how often allocation number i was released
    calls,      \* number of exported-function calls begun so far
    unpadded,   \* the library's SectorSize -> UnpaddedBytesAmount table, as observed
    bytesSeen   \* bytesSeen[s]: the values get_max_user_bytes... returned for s, in order

vars == <<pc, op, args, bs, result, response, invoked, ret, mark, log, heap,
          released, calls, unpadded, bytesSeen>>

locals == <<pc, op, args, bs, result, response, invoked, ret, mark>>

----------------------------------------------------------------------------
(* Bounds of the model.                                                    *)

\* Caller threads that run concurrently.
NumThreads == 2
\* Exported-function calls in one behaviour.
MaxCalls == 2
\* Proof buffers hold up to this many whole partition proofs (plus one byte).
MaxProofUnits == 3
\* Commitment buffers hold up to this many whole commitments (plus one byte).
MaxComms == 1
\* Fault lists hold up to this many sector indices.
MaxFaults == 1
\* Bits of a u64 in the model.
WordBits == 16
\* Calls of the single caller that passes every shape of argument.
MaxSingleCalls == 1

----------------------------------------------------------------------------
(* Program constants.                                                      *)

\* Largest u64 of the model: u64 values are kept in WordBits bits (the layer
\* does no arithmetic on them, it only passes them on).
U64Max == 2^WordBits - 1
\* Bytes in one commitment: the [u8; 32] parameters.
COMM_LEN == 32
\* Serialized size of one partition's proof, as configured in the helpers.
SINGLE_PARTITION_PROOF_LEN == 192
\* The largest partition count the helpers map to a configuration.
MAX_PARTITIONS == 2

Threads == 1..NumThreads
Addrs == 1..MaxCalls
NULL == <<>>
Unknown == 0 - 1

SealOp == "verify_seal"
PostOp == "verify_post"
PipOp  == "verify_piece_inclusion_proof"
GpcOp  == "generate_piece_commitment"
MaxOp  == "get_max_user_bytes_per_staged_sector"

----------------------------------------------------------------------------
(* Values.                                                                 *)

Ok(v)  == [tag |-> "Ok", v |-> v]
Err(e) == [tag |-> "Err", e |-> e]
IsOk(r) == r.tag = "Ok"
None == [tag |-> "None"]

\* Newtype wrappers of filecoin_proofs::types and their `into`/`from`.
SectorSize(n) == <<"SectorSize", n>>
PaddedBytesAmount(n) == <<"PaddedBytesAmount", n>>
UnpaddedBytesAmount(n) == <<"UnpaddedBytesAmount", n>>
u64_from(x) == x[2]

\* A commitment: COMM_LEN bytes.
Comm(b) == [i \in 1..COMM_LEN |-> b]
ZeroComm == Comm(0)

\* format!("{}", err): the Display text of an error.
Format(e) ==
    CASE e = "proof_len"  -> "proofs array len incompatible with partition proof len"
      [] e = "partitions" -> "no PoRepProofPartitions mapping"
      [] e = "lib_empty"  -> ""
      [] OTHER            -> "library error"

\* rust_str_to_c_str: an owned, non-null C string holding the text.
rust_str_to_c_str(s) == <<s>>

----------------------------------------------------------------------------
(* crate::helpers (declared at line 9; described in the decoder section).  *)

\* Proof bytes of verify_seal: the whole buffer is one proof whose length
\* must be an exact multiple of the per-partition size.
try_into_porep_proof_bytes(proof_len) ==
    IF proof_len % SINGLE_PARTITION_PROOF_LEN = 0
    THEN Ok(proof_len)
    ELSE Err("proof_len")

\* Partition count derived from the decoded length.
porep_proof_partitions_try_from_bytes(n) ==
    LET count == n \div SINGLE_PARTITION_PROOF_LEN
    IN IF n % SINGLE_PARTITION_PROOF_LEN = 0 /\ count \in 1..MAX_PARTITIONS
       THEN Ok(count)
       ELSE Err("partitions")

\* Proof bytes of verify_post: chunks of proof_partitions partition proofs.
try_into_post_proofs_bytes(proof_partitions, flattened_proofs_len) ==
    LET chunk == proof_partitions * SINGLE_PARTITION_PROOF_LEN
    IN IF proof_partitions \in 1..MAX_PARTITIONS
          /\ flattened_proofs_len % chunk = 0
       THEN Ok(flattened_proofs_len)
       ELSE Err("proof_len")

\* Commitments handed to the library: the call site (line 98) passes the
\* value on as it is, so the helper yields a sequence for every length.  The
\* set holds the numbers of 32-byte units it may yield: the whole units of
\* the buffer, and, when bytes are left over, possibly one more for them.
into_commitments(flattened_comm_rs_len) ==
    LET whole == flattened_comm_rs_len \div COMM_LEN
    IN IF flattened_comm_rs_len % COMM_LEN = 0 THEN {whole} ELSE {whole, whole + 1}

\* Default::default() of the response structs (crate::responses, line 10).
DefaultVerifyResponse ==
    [status_code |-> 0, error_msg |-> NULL, is_valid |-> FALSE]
DefaultGeneratePieceCommitmentResponse ==
    [status_code |-> 0, error_msg |-> NULL, comm_p |-> ZeroComm,
     padded_and_aligned_piece_size |-> 0]

----------------------------------------------------------------------------
(* The inputs a caller may pass and the answers the library may give.      *)

\* Every shape of argument the decoders tell apart and every kind of answer
\* of the library, for a single call.
AllInputs ==
    [proofLens |-> {k * SINGLE_PARTITION_PROOF_LEN + r :
                       k \in 0..MaxProofUnits, r \in 0..1},
     partitions |-> 0..MaxProofUnits,
     commLens |-> {k * COMM_LEN + r : k \in 0..MaxComms, r \in 0..1},
     faultLens |-> 0..MaxFaults,
     pieceSizes |-> {0, 127},
     sectorSizes |-> {0, 1024, U64Max},
     libErrors |-> {"lib", "lib_empty"},
     libComms |-> {Comm(0), Comm(7)},
     libSizes |-> {0, 128, U64Max},
     maxCalls |-> MaxSingleCalls]

\* One well-formed and one malformed proof buffer, for callers that call
\* repeatedly or concurrently.
FewInputs ==
    [proofLens |-> {SINGLE_PARTITION_PROOF_LEN, SINGLE_PARTITION_PROOF_LEN + 1},
     partitions |-> {1},
     commLens |-> {COMM_LEN},
     faultLens |-> {0},
     pieceSizes |-> {0},
     sectorSizes |-> {0, U64Max},
     libErrors |-> {"lib"},
     libComms |-> {Comm(7)},
     libSizes |-> {U64Max},
     maxCalls |-> MaxCalls]

\* Result<bool>
LibBoolResults(U) == {Ok(TRUE), Ok(FALSE)} \cup {Err(e) : e \in U.libErrors}
\* Result<VerifyPoStDynamicSectorsCountOutput>
LibPostResults(U) ==
    {Ok([is_valid |-> b]) : b \in BOOLEAN} \cup {Err(e) : e \in U.libErrors}
\* Result<(Commitment, PaddedBytesAmount)>
LibPieceResults(U) ==
    {Ok(<<c, PaddedBytesAmount(n)>>) : c \in U.libComms, n \in U.libSizes}
        \cup {Err(e) : e \in U.libErrors}
\* The u64 values any call may pass or the library may answer with.
U64s == AllInputs.sectorSizes \cup AllInputs.libSizes

NoArgs ==
    [sector_size |-> 0, proof_len |-> 0, proof_partitions |-> 0,
     comm_rs_len |-> 0, faults_len |-> 0, unpadded_piece_size |-> 0]

----------------------------------------------------------------------------
(* Heap and logger.                                                        *)

FreeCell == [live |-> FALSE]
LiveAddrs == {a \in Addrs : heap[a].live}

\* The global allocator: some address that holds no live allocation.
FreeAddrs == {a \in Addrs : ~heap[a].live}

\* raw_ptr(response): Box::into_raw(Box::new(response)) at address a.
raw_ptr(a, kind, value) ==
    /\ heap' = [heap EXCEPT ![a] =
                  [live |-> TRUE, id |-> Len(released) + 1, kind |-> kind,
                   value |-> value]]
    /\ released' = Append(released, 0)

\* As Box_from_raw_drop, releasing every live allocation of the pointer's type.
Box_from_raw_drop_All(ptr) ==
    LET hit == {a \in Addrs : heap[a].live /\ heap[a].kind = heap[ptr].kind}
    IN /\ released' = [i \in 1..Len(released) |->
                          IF \E a \in hit : heap[a].id = i
                          THEN released[i] + 1 ELSE released[i]]
       /\ heap' = [a \in Addrs |-> IF a \in hit THEN FreeCell ELSE heap[a]]

\* let _ = Box::from_raw(ptr): the box is dropped, the allocation released.
Box_from_raw_drop(ptr) ==
    /\ released' = [released EXCEPT ![heap[ptr].id] = @ + 1]
    /\ heap' = [heap EXCEPT ![ptr] = FreeCell]

\* info!(FCPFFI_LOG, "<op>: {}", <what>; "target" => "FFI")
info(t, name, what) == log' = Append(log, [thread |-> t, op |-> name, msg |-> what])

Idle(t) == pc[t] \in {"idle", "done"}

\* Entry into exported function `name` with arguments a.
CanEnter(t, U) == Idle(t) /\ calls < U.maxCalls

Enter(t, name, a, next) ==
    /\ calls' = calls + 1
    /\ pc' = [pc EXCEPT ![t] = next]
    /\ op' = [op EXCEPT ![t] = name]
    /\ args' = [args EXCEPT ![t] = a]
    /\ bs' = [bs EXCEPT ![t] = None]
    /\ result' = [result EXCEPT ![t] = None]
    /\ response' = [response EXCEPT ![t] = None]
    /\ invoked' = [invoked EXCEPT ![t] = <<>>]
    /\ ret' = [ret EXCEPT ![t] = 0]
    /\ mark' = [mark EXCEPT ![t] = Len(log)]

Goto(t, next) == pc' = [pc EXCEPT ![t] = next]

\* The call returns: its frame (arguments and locals) is gone.
Leave(t) ==
    /\ pc' = [pc EXCEPT ![t] = "done"]
    /\ args' = [args EXCEPT ![t] = NoArgs]
    /\ bs' = [bs EXCEPT ![t] = None]
    /\ result' = [result EXCEPT ![t] = None]
    /\ response' = [response EXCEPT ![t] = None]
    /\ invoked' = [invoked EXCEPT ![t] = <<>>]

Init ==
    /\ pc = [t \in Threads |-> "idle"]
    /\ op = [t \in Threads |-> "none"]
    /\ args = [t \in Threads |-> NoArgs]
    /\ bs = [t \in Threads |-> None]
    /\ result = [t \in Threads |-> None]
    /\ response = [t \in Threads |-> None]
    /\ invoked = [t \in Threads |-> <<>>]
    /\ ret = [t \in Threads |-> 0]
    /\ mark = [t \in Threads |-> 0]
    /\ log = <<>>
    /\ heap = [a \in Addrs |-> FreeCell]
    /\ released = <<>>
    /\ calls = 0
    /\ unpadded = [s \in U64s |-> Unknown]
    /\ bytesSeen = [s \in U64s |-> <<>>]

----------------------------------------------------------------------------
(* verify_seal, lines 16-66.                                               *)

\* As MapVerifySeal, with the Err arm reporting status_code 0.
MapVerifySeal_ErrAsSuccess(r) ==
    IF IsOk(r)
    THEN [DefaultVerifyResponse EXCEPT !.status_code = 0, !.is_valid = r.v]
    ELSE [DefaultVerifyResponse EXCEPT
            !.status_code = 0, !.error_msg = rust_str_to_c_str(Format(r.e))]

\* Lines 46-61: the response built from `result`.
MapVerifySeal(r) ==
    IF IsOk(r)
    THEN IF r.v
         THEN [DefaultVerifyResponse EXCEPT !.status_code = 0, !.is_valid = TRUE]
         ELSE [DefaultVerifyResponse EXCEPT !.status_code = 0, !.is_valid = FALSE]
    ELSE [DefaultVerifyResponse EXCEPT
            !.status_code = 1, !.error_msg = rust_str_to_c_str(Format(r.e))]

\* Lines 16-26: entry, then the "start" log line.
verify_seal_start(t, U) ==
    /\ CanEnter(t, U)
    /\ \E n \in U.proofLens :
          Enter(t, SealOp, [NoArgs EXCEPT !.proof_len = n], "seal_decode")
    /\ info(t, SealOp, "start")
    /\ UNCHANGED <<heap, released, unpadded, bytesSeen>>

\* Line 28: porep_bytes.
verify_seal_decode(t) ==
    /\ pc[t] = "seal_decode"
    /\ bs' = [bs EXCEPT ![t] = try_into_porep_proof_bytes(args[t].proof_len)]
    /\ Goto(t, "seal_partitions")
    /\ UNCHANGED <<op, args, result, response, invoked, ret, mark, log, heap,
                   released, calls, unpadded, bytesSeen>>

\* Lines 30-31: and_then on porep_bytes, then the partition count.
verify_seal_partitions(t) ==
    /\ pc[t] = "seal_partitions"
    /\ IF ~IsOk(bs[t])
       THEN /\ result' = [result EXCEPT ![t] = bs[t]]
            /\ Goto(t, "seal_map")
       ELSE LET ppp == porep_proof_partitions_try_from_bytes(bs[t].v)
            IN IF ~IsOk(ppp)
               THEN /\ result' = [result EXCEPT ![t] = ppp]
                    /\ Goto(t, "seal_map")
               ELSE /\ result' = [result EXCEPT ![t] = None]
                    /\ Goto(t, "seal_library")
    /\ UNCHANGED <<op, args, bs, response, invoked, ret, mark, log, heap,
                   released, calls, unpadded, bytesSeen>>

\* Lines 32-42: the configuration and the library's verify_seal.
verify_seal_library(t, U) ==
    /\ pc[t] = "seal_library"
    /\ \E r \in LibBoolResults(U) :
          /\ invoked' = [invoked EXCEPT ![t] = Append(@,
                [fn |-> SealOp,
                 partitions |-> porep_proof_partitions_try_from_bytes(bs[t].v).v,
                 proof_bytes |-> bs[t].v, commitments |-> 0, faults |-> 0,
                 returned |-> r])]
          /\ result' = [result EXCEPT ![t] = r]
    /\ Goto(t, "seal_map")
    /\ UNCHANGED <<op, args, bs, response, ret, mark, log, heap, released, calls,
                   unpadded, bytesSeen>>

\* As verify_seal_map, with `result` kept in one static slot that every
\* thread writes: the response is built from whichever result is there.
verify_seal_map_SharedResult(t) ==
    /\ pc[t] = "seal_map"
    /\ \E u \in Threads :
          /\ op[u] = SealOp /\ result[u] # None
          /\ response' = [response EXCEPT ![t] = MapVerifySeal(result[u])]
    /\ Goto(t, "seal_finish")
    /\ UNCHANGED <<op, args, bs, result, invoked, ret, mark, log, heap, released,
                   calls, unpadded, bytesSeen>>

\* Lines 46-61.
verify_seal_map(t) ==
    /\ pc[t] = "seal_map"
    /\ response' = [response EXCEPT ![t] = MapVerifySeal(result[t])]
    /\ Goto(t, "seal_finish")
    /\ UNCHANGED <<op, args, bs, result, invoked, ret, mark, log, heap, released,
                   calls, unpadded, bytesSeen>>

\* Line 63: the "finish" log line.
verify_seal_finish(t) ==
    /\ pc[t] = "seal_finish"
    /\ info(t, SealOp, "finish")
    /\ Goto(t, "seal_return")
    /\ UNCHANGED <<op, args, bs, result, response, invoked, ret, mark, heap,
                   released, calls, unpadded, bytesSeen>>

\* Line 65: raw_ptr(response).
verify_seal_return(t) ==
    /\ pc[t] = "seal_return"
    /\ \E a \in FreeAddrs :
          /\ raw_ptr(a, "VerifySealResponse", response[t])
          /\ ret' = [ret EXCEPT ![t] = a]
    /\ Leave(t)
    /\ UNCHANGED <<op, mark, log, calls, unpadded, bytesSeen>>

----------------------------------------------------------------------------
(* verify_post, lines 71-121.                                              *)

\* As MapVerifyPost, with the Ok arm ignoring dynamic.is_valid.
MapVerifyPost_AlwaysValid(r) ==
    IF IsOk(r)
    THEN [DefaultVerifyResponse EXCEPT !.status_code = 0, !.is_valid = TRUE]
    ELSE [DefaultVerifyResponse EXCEPT
            !.status_code = 1, !.error_msg = rust_str_to_c_str(Format(r.e))]

\* Lines 105-116.
MapVerifyPost(r) ==
    IF IsOk(r)
    THEN [DefaultVerifyResponse EXCEPT !.status_code = 0, !.is_valid = r.v.is_valid]
    ELSE [DefaultVerifyResponse EXCEPT
            !.status_code = 1, !.error_msg = rust_str_to_c_str(Format(r.e))]

\* Lines 71-82.
verify_post_start(t, U) ==
    /\ CanEnter(t, U)
    /\ \E p \in U.partitions, n \in U.proofLens, c \in U.commLens,
          f \in U.faultLens :
          Enter(t, PostOp,
                [NoArgs EXCEPT !.proof_partitions = p, !.proof_len = n,
                               !.comm_rs_len = c, !.faults_len = f],
                "post_decode")
    /\ info(t, PostOp, "start")
    /\ UNCHANGED <<heap, released, unpadded, bytesSeen>>

\* Lines 84-88: post_bytes.
verify_post_decode(t) ==
    /\ pc[t] = "post_decode"
    /\ bs' = [bs EXCEPT ![t] =
                try_into_post_proofs_bytes(args[t].proof_partitions, args[t].proof_len)]
    /\ Goto(t, "post_library")
    /\ UNCHANGED <<op, args, result, response, invoked, ret, mark, log, heap,
                   released, calls, unpadded, bytesSeen>>

\* As verify_post_library, with the library called on the raw buffer whether
\* or not decoding succeeded.
verify_post_library_NoAndThen(t, U) ==
    /\ pc[t] = "post_library"
    /\ \E r \in LibPostResults(U), k \in into_commitments(args[t].comm_rs_len) :
          /\ invoked' = [invoked EXCEPT ![t] = Append(@,
                [fn |-> PostOp,
                 partitions |-> args[t].proof_partitions,
                 proof_bytes |-> args[t].proof_len, commitments |-> k,
                 faults |-> args[t].faults_len,
                 returned |-> r])]
          /\ result' = [result EXCEPT ![t] = r]
    /\ Goto(t, "post_map")
    /\ UNCHANGED <<op, args, bs, response, ret, mark, log, heap, released, calls,
                   unpadded, bytesSeen>>

\* Lines 90-103: and_then on post_bytes; inside it the configuration, the
\* commitments, the challenge seed, the fault list and the library's
\* verify_post.
verify_post_library(t, U) ==
    /\ pc[t] = "post_library"
    /\ IF ~IsOk(bs[t])
       THEN /\ result' = [result EXCEPT ![t] = bs[t]]
            /\ UNCHANGED invoked
       ELSE \E r \in LibPostResults(U), k \in into_commitments(args[t].comm_rs_len) :
               /\ invoked' = [invoked EXCEPT ![t] = Append(@,
                     [fn |-> PostOp,
                      partitions |-> args[t].proof_partitions,
                      proof_bytes |-> bs[t].v, commitments |-> k,
                      faults |-> args[t].faults_len,
                      returned |-> r])]
               /\ result' = [result EXCEPT ![t] = r]
    /\ Goto(t, "post_map")
    /\ UNCHANGED <<op, args, bs, response, ret, mark, log, heap, released, calls,
                   unpadded, bytesSeen>>

\* Lines 105-116.
verify_post_map(t) ==
    /\ pc[t] = "post_map"
    /\ response' = [response EXCEPT ![t] = MapVerifyPost(result[t])]
    /\ Goto(t, "post_finish")
    /\ UNCHANGED <<op, args, bs, result, invoked, ret, mark, log, heap, released,
                   calls, unpadded, bytesSeen>>

\* Line 118.
verify_post_finish(t) ==
    /\ pc[t] = "post_finish"
    /\ info(t, PostOp, "finish")
    /\ Goto(t, "post_return")
    /\ UNCHANGED <<op, args, bs, result, response, invoked, ret, mark, heap,
                   released, calls, unpadded, bytesSeen>>

\* Line 120.
verify_post_return(t) ==
    /\ pc[t] = "post_return"
    /\ \E a \in FreeAddrs :
          /\ raw_ptr(a, "VerifyPoStResponse", response[t])
          /\ ret' = [ret EXCEPT ![t] = a]
    /\ Leave(t)
    /\ UNCHANGED <<op, mark, log, calls, unpadded, bytesSeen>>

----------------------------------------------------------------------------
(* verify_piece_inclusion_proof, lines 125-163.                            *)

\* As MapVerifyPieceInclusionProof, with the Err arm leaving error_msg unset.
MapVerifyPieceInclusionProof_NoMessage(r) ==
    IF IsOk(r)
    THEN [DefaultVerifyResponse EXCEPT !.status_code = 0, !.is_valid = r.v]
    ELSE [DefaultVerifyResponse EXCEPT !.status_code = 1]

\* Lines 143-158.
MapVerifyPieceInclusionProof(r) ==
    IF IsOk(r)
    THEN IF r.v
         THEN [DefaultVerifyResponse EXCEPT !.status_code = 0, !.is_valid = TRUE]
         ELSE [DefaultVerifyResponse EXCEPT !.status_code = 0, !.is_valid = FALSE]
    ELSE [DefaultVerifyResponse EXCEPT
            !.status_code = 1, !.error_msg = rust_str_to_c_str(Format(r.e))]

\* Lines 125-133.
verify_piece_inclusion_proof_start(t, U) ==
    /\ CanEnter(t, U)
    /\ \E n \in U.proofLens :
          Enter(t, PipOp, [NoArgs EXCEPT !.proof_len = n], "pip_library")
    /\ info(t, PipOp, "start")
    /\ UNCHANGED <<heap, released, unpadded, bytesSeen>>

\* Lines 135-141: the slice as given, the newtypes and the library call.
verify_piece_inclusion_proof_library(t, U) ==
    /\ pc[t] = "pip_library"
    /\ \E r \in LibBoolResults(U) :
          /\ invoked' = [invoked EXCEPT ![t] = Append(@,
                [fn |-> PipOp, partitions |-> 0,
                 proof_bytes |-> args[t].proof_len, commitments |-> 0,
                 faults |-> 0, returned |-> r])]
          /\ result' = [result EXCEPT ![t] = r]
    /\ Goto(t, "pip_map")
    /\ UNCHANGED <<op, args, bs, response, ret, mark, log, heap, released, calls,
                   unpadded, bytesSeen>>

\* Lines 143-158.
verify_piece_inclusion_proof_map(t) ==
    /\ pc[t] = "pip_map"
    /\ response' = [response EXCEPT ![t] = MapVerifyPieceInclusionProof(result[t])]
    /\ Goto(t, "pip_finish")
    /\ UNCHANGED <<op, args, bs, result, invoked, ret, mark, log, heap, released,
                   calls, unpadded, bytesSeen>>

\* As verify_piece_inclusion_proof_finish, without the log line.
verify_piece_inclusion_proof_finish_NoLog(t) ==
    /\ pc[t] = "pip_finish"
    /\ Goto(t, "pip_return")
    /\ UNCHANGED <<op, args, bs, result, response, invoked, ret, mark, log, heap,
                   released, calls, unpadded, bytesSeen>>

\* Line 160.
verify_piece_inclusion_proof_finish(t) ==
    /\ pc[t] = "pip_finish"
    /\ info(t, PipOp, "finish")
    /\ Goto(t, "pip_return")
    /\ UNCHANGED <<op, args, bs, result, response, invoked, ret, mark, heap,
                   released, calls, unpadded, bytesSeen>>

\* Line 162.
verify_piece_inclusion_proof_return(t) ==
    /\ pc[t] = "pip_return"
    /\ \E a \in FreeAddrs :
          /\ raw_ptr(a, "VerifyPieceInclusionProofResponse", response[t])
          /\ ret' = [ret EXCEPT ![t] = a]
    /\ Leave(t)
    /\ UNCHANGED <<op, mark, log, calls, unpadded, bytesSeen>>

----------------------------------------------------------------------------
(* generate_piece_commitment, lines 174-200.                               *)

\* As MapGeneratePieceCommitment, with the Ok arm not filling the padded size.
MapGeneratePieceCommitment_NoSize(r) ==
    IF IsOk(r)
    THEN [DefaultGeneratePieceCommitmentResponse EXCEPT
            !.status_code = 0, !.comm_p = r.v[1]]
    ELSE [DefaultGeneratePieceCommitmentResponse EXCEPT
            !.status_code = 1, !.error_msg = rust_str_to_c_str(Format(r.e))]

\* Lines 185-197.
MapGeneratePieceCommitment(r) ==
    IF IsOk(r)
    THEN [DefaultGeneratePieceCommitmentResponse EXCEPT
            !.status_code = 0,
            !.comm_p = r.v[1],
            !.padded_and_aligned_piece_size = u64_from(r.v[2])]
    ELSE [DefaultGeneratePieceCommitmentResponse EXCEPT
            !.status_code = 1, !.error_msg = rust_str_to_c_str(Format(r.e))]

\* Lines 174-178: entry; no log line.
generate_piece_commitment_start(t, U) ==
    /\ CanEnter(t, U)
    /\ \E n \in U.pieceSizes :
          Enter(t, GpcOp, [NoArgs EXCEPT !.unpadded_piece_size = n], "gpc_library")
    /\ UNCHANGED <<log, heap, released, unpadded, bytesSeen>>

\* Lines 180-183.
generate_piece_commitment_library(t, U) ==
    /\ pc[t] = "gpc_library"
    /\ \E r \in LibPieceResults(U) :
          /\ invoked' = [invoked EXCEPT ![t] = Append(@,
                [fn |-> GpcOp, partitions |-> 0,
                 proof_bytes |-> 0, commitments |-> 0,
                 faults |-> 0, returned |-> r])]
          /\ result' = [result EXCEPT ![t] = r]
    /\ Goto(t, "gpc_map")
    /\ UNCHANGED <<op, args, bs, response, ret, mark, log, heap, released, calls,
                   unpadded, bytesSeen>>

\* Lines 185-197.
generate_piece_commitment_map(t) ==
    /\ pc[t] = "gpc_map"
    /\ response' = [response EXCEPT ![t] = MapGeneratePieceCommitment(result[t])]
    /\ Goto(t, "gpc_return")
    /\ UNCHANGED <<op, args, bs, result, invoked, ret, mark, log, heap, released,
                   calls, unpadded, bytesSeen>>

\* Line 199.
generate_piece_commitment_return(t) ==
    /\ pc[t] = "gpc_return"
    /\ \E a \in FreeAddrs :
          /\ raw_ptr(a, "GeneratePieceCommitmentResponse", response[t])
          /\ ret' = [ret EXCEPT ![t] = a]
    /\ Leave(t)
    /\ UNCHANGED <<op, mark, log, calls, unpadded, bytesSeen>>

----------------------------------------------------------------------------
(* get_max_user_bytes_per_staged_sector, lines 211-216.                    *)

\* As MaxUserBytes, with the result narrowed to half the width.
MaxUserBytes_Truncated(converted) == u64_from(converted) % 2^(WordBits \div 2)

\* u64::from(UnpaddedBytesAmount::from(SectorSize(sector_size))), given the
\* UnpaddedBytesAmount the library's conversion yields.
MaxUserBytes(converted) == u64_from(converted)

\* The library's conversion is a pure function whose values this layer does
\* not fix: the first call with a sector size observes some u64, and every
\* later call with that sector size observes the same one.
get_max_user_bytes_per_staged_sector(t, U) ==
    /\ CanEnter(t, U)
    /\ \E s \in U.sectorSizes, v \in U.libSizes \cup {0} :
          /\ unpadded[SectorSize(s)[2]] \in {Unknown, v}
          /\ Enter(t, MaxOp, [NoArgs EXCEPT !.sector_size = s], "max_return")
          /\ unpadded' = [unpadded EXCEPT ![s] = v]
    /\ UNCHANGED <<log, heap, released, bytesSeen>>

\* The u64 is returned by value: no allocation, no log line.
get_max_user_bytes_per_staged_sector_return(t) ==
    /\ pc[t] = "max_return"
    /\ LET out == MaxUserBytes(UnpaddedBytesAmount(unpadded[args[t].sector_size]))
       IN /\ ret' = [ret EXCEPT ![t] = out]
          /\ bytesSeen' = [bytesSeen EXCEPT ![args[t].sector_size] = Append(@, out)]
    /\ Leave(t)
    /\ UNCHANGED <<op, mark, log, heap, released, calls, unpadded>>

----------------------------------------------------------------------------
(* The destroyers, lines 165-170, 202-207, 218-230.  A caller passes a     *)
(* pointer it got from the matching dispatcher and has not destroyed yet.  *)

Destroy(t, kind) ==
    /\ Idle(t)
    /\ \E ptr \in LiveAddrs :
          /\ heap[ptr].kind = kind
          /\ Box_from_raw_drop(ptr)
    /\ UNCHANGED <<locals, log, calls, unpadded, bytesSeen>>

destroy_verify_seal_response(t) == Destroy(t, "VerifySealResponse")
destroy_verify_post_response(t) == Destroy(t, "VerifyPoStResponse")
destroy_verify_piece_inclusion_proof_response(t) ==
    Destroy(t, "VerifyPieceInclusionProofResponse")
destroy_generate_piece_commitment_response(t) ==
    Destroy(t, "GeneratePieceCommitmentResponse")

----------------------------------------------------------------------------

Step(t, U) ==
    \/ verify_seal_start(t, U)
    \/ verify_seal_decode(t)
    \/ verify_seal_partitions(t)
    \/ verify_seal_library(t, U)
    \/ verify_seal_map(t)
    \/ verify_seal_finish(t)
    \/ verify_seal_return(t)
    \/ verify_post_start(t, U)
    \/ verify_post_decode(t)
    \/ verify_post_library(t, U)
    \/ verify_post_map(t)
    \/ verify_post_finish(t)
    \/ verify_post_return(t)
    \/ verify_piece_inclusion_proof_start(t, U)
    \/ verify_piece_inclusion_proof_library(t, U)
    \/ verify_piece_inclusion_proof_map(t)
    \/ verify_piece_inclusion_proof_finish(t)
    \/ verify_piece_inclusion_proof_return(t)
    \/ generate_piece_commitment_start(t, U)
    \/ generate_piece_commitment_library(t, U)
    \/ generate_piece_commitment_map(t)
    \/ generate_piece_commitment_return(t)
    \/ get_max_user_bytes_per_staged_sector(t, U)
    \/ get_max_user_bytes_per_staged_sector_return(t)
    \/ destroy_verify_seal_response(t)
    \/ destroy_verify_post_response(t)
    \/ destroy_verify_piece_inclusion_proof_response(t)
    \/ destroy_generate_piece_commitment_response(t)

\* Caller threads calling concurrently.
Next == \E t \in Threads : Step(t, FewInputs)

Spec == Init /\ [][Next]_vars

\* One caller thread making one call, with every shape of argument.
NextSingle == Step(1, AllInputs)

SpecSingle == Init /\ [][NextSingle]_vars

\* One caller thread calling and destroying repeatedly.
NextSerial == Step(1, FewInputs)

SpecSerial == Init /\ [][NextSerial]_vars

----------------------------------------------------------------------------
(* Properties.                                                             *)

NullPtr == 0
Dispatchers == {SealOp, PostOp, PipOp, GpcOp}
VerifyOps == {SealOp, PostOp, PipOp}
ReturnPcs == {"seal_return", "post_return", "pip_return", "gpc_return"}
\* The response is complete and about to be boxed and returned.
Returning(t) == pc[t] \in ReturnPcs
InCall(t) == pc[t] \notin {"idle", "done"}
\* What the library answered to thread t's call.
LibAnswer(t) == invoked[t][1].returned
\* The log entries thread t wrote since its current (or last) call began.
CallLog(t) ==
    SelectSeq(SubSeq(log, mark[t] + 1, Len(log)), LAMBDA e : e.thread = t)
Entry(t, what) == [thread |-> t, op |-> op[t], msg |-> what]
StatusMatchesMessage(r) ==
    /\ r.status_code \in {0, 1}
    /\ r.status_code = 0 <=> r.error_msg = NULL

\* C1: every dispatcher call that has returned returned a non-null pointer,
\* and in every response a dispatcher builds or has handed out, status_code
\* is 0 exactly when error_msg is the null pointer.
C1_NonNullResponseStatusIffNoMessage ==
    /\ \A t \in Threads :
          /\ pc[t] = "done" /\ op[t] \in Dispatchers => ret[t] # NullPtr
          /\ Returning(t) => StatusMatchesMessage(response[t])
    /\ \A a \in LiveAddrs : StatusMatchesMessage(heap[a].value)

\* A dispatcher call that failed has returned a live response with status 1.
C1_Witness ==
    \E t \in Threads :
        /\ pc[t] = "done" /\ op[t] = PipOp /\ ret[t] # NullPtr
        /\ heap[ret[t]].live
        /\ heap[ret[t]].value.status_code = 1
        /\ heap[ret[t]].value.error_msg # NULL

\* C2: in verify_seal, verify_post and verify_piece_inclusion_proof the
\* library's answer alone fixes the response: a verdict of true gives
\* status_code 0 and is_valid true, a verdict of false gives status_code 0
\* and is_valid false, an error gives status_code 1, the formatted message
\* and is_valid false; is_valid true never comes with status_code 1.
C2_ResponseFromLibraryResult ==
    \A t \in Threads :
        Returning(t) /\ op[t] \in VerifyOps =>
            /\ ~(response[t].is_valid /\ response[t].status_code = 1)
            /\ invoked[t] # <<>> =>
                 LET r == LibAnswer(t)
                     verdict == IF op[t] = PostOp THEN r.v.is_valid ELSE r.v
                 IN IF IsOk(r)
                    THEN response[t] =
                           [status_code |-> 0, error_msg |-> NULL, is_valid |-> verdict]
                    ELSE response[t] =
                           [status_code |-> 1, error_msg |-> <<Format(r.e)>>,
                            is_valid |-> FALSE]

\* verify_post is about to return a library verdict of true.
C2_Witness ==
    \E t \in Threads :
        /\ pc[t] = "post_return"
        /\ invoked[t] # <<>>
        /\ IsOk(LibAnswer(t)) /\ LibAnswer(t).v.is_valid
        /\ response[t].is_valid /\ response[t].status_code = 0

\* The proof buffer of a verify_seal call does not decode: its length is not
\* a multiple of the per-partition proof size, or the multiple is not a
\* supported partition count.
SealProofMalformed(t) ==
    \/ args[t].proof_len % SINGLE_PARTITION_PROOF_LEN # 0
    \/ (args[t].proof_len \div SINGLE_PARTITION_PROOF_LEN) \notin 1..MAX_PARTITIONS

\* C3: a verify_seal call whose proof buffer does not decode returns
\* status_code 1, an error_msg that describes the decoding failure, and
\* is_valid false.
C3_SealDecodeFailureReported ==
    \A t \in Threads :
        pc[t] = "seal_return" /\ SealProofMalformed(t) =>
            /\ response[t].status_code = 1
            /\ response[t].error_msg \in
                 {<<Format("proof_len")>>, <<Format("partitions")>>}
            /\ response[t].is_valid = FALSE

\* verify_seal is about to return after a proof buffer one byte too long.
C3_Witness ==
    \E t \in Threads :
        /\ pc[t] = "seal_return"
        /\ args[t].proof_len = SINGLE_PARTITION_PROOF_LEN + 1
        /\ response[t].status_code = 1

\* C4: a verify_post call whose flattened_comm_rs length is not a multiple
\* of 32 reports a decode error (status_code 1 with a message) and passes no
\* commitments to the library; when the length is a multiple of 32, the
\* library receives exactly length / 32 commitments.
C4_CommitmentsLengthChecked ==
    \A t \in Threads :
        pc[t] = "post_return" =>
            IF args[t].comm_rs_len % COMM_LEN # 0
            THEN /\ response[t].status_code = 1
                 /\ response[t].error_msg # NULL
                 /\ invoked[t] = <<>>
            ELSE invoked[t] # <<>> =>
                    invoked[t][1].commitments = args[t].comm_rs_len \div COMM_LEN

C6_PieceCommitmentPropagated ==
    \A t \in Threads :
        pc[t] = "gpc_return" =>
            /\ Len(invoked[t]) = 1
            /\ LET r == LibAnswer(t)
               IN IF IsOk(r)
                  THEN response[t] =
                         [status_code |-> 0, error_msg |-> NULL, comm_p |-> r.v[1],
                          padded_and_aligned_piece_size |-> r.v[2][2]]
                  ELSE response[t] =
                         [status_code |-> 1, error_msg |-> <<Format(r.e)>>,
                          comm_p |-> ZeroComm,
                          padded_and_aligned_piece_size |-> 0]

\* generate_piece_commitment is about to return the library's commitment and
\* size for unpadded_piece_size 0.
C6_Witness ==
    \E t \in Threads :
        /\ pc[t] = "gpc_return"
        /\ args[t].unpadded_piece_size = 0
        /\ IsOk(LibAnswer(t))
        /\ response[t].comm_p = Comm(7)
        /\ response[t].padded_and_aligned_piece_size = 128

\* The numbers of the allocations made so far.
AllocIds == 1..Len(released)
\* Every allocation is live at one address or was released once, never both.
HeapAccounted ==
    /\ \A i \in AllocIds :
          /\ released[i] \in {0, 1}
          /\ released[i] = 0 <=> \E a \in LiveAddrs : heap[a].id = i
    /\ \A a, b \in LiveAddrs : heap[a].id = heap[b].id => a = b
    /\ LiveAddrs = {} => \A i \in AllocIds : released[i] = 1
\* A dispatcher's return allocates one response, at the address it returns.
ReturnAllocatesOne ==
    \A t \in Threads :
        Returning(t) /\ pc'[t] = "done" =>
            /\ Len(released') = Len(released) + 1
            /\ ret'[t] \in Addrs \ LiveAddrs
            /\ heap'[ret'[t]].live /\ heap'[ret'[t]].value = response[t]
            /\ \A a \in Addrs \ {ret'[t]} : heap'[a] = heap[a]
\* A destroyer releases one allocation and leaves every other as it was.
DestroyReleasesOne ==
    (\E a \in LiveAddrs : ~heap'[a].live) =>
        \E a \in LiveAddrs :
            /\ heap'[a] = FreeCell
            /\ released' = [released EXCEPT ![heap[a].id] = 1]
            /\ \A b \in Addrs \ {a} : heap'[b] = heap[b]

\* C7: each dispatcher call allocates exactly one response, each destroyer
\* call releases exactly the allocation it is given and leaves every other
\* live response unchanged, and when every response has been destroyed once
\* every allocation has been released exactly once.
C7_AllocatedOnceReleasedOnce ==
    /\ []HeapAccounted
    /\ [][ReturnAllocatesOne /\ DestroyReleasesOne]_vars

\* Two responses were allocated; the first has been destroyed, the second is
\* still live.
C7_Witness ==
    /\ Len(released) = 2
    /\ released[1] = 1 /\ released[2] = 0
    /\ \E a \in LiveAddrs : heap[a].id = 2

\* The response a call returns when it runs alone on arguments a and gets
\* answer r from the library, if it calls the library.
AloneResponse(o, a, r) ==
    CASE o = SealOp ->
            LET b == try_into_porep_proof_bytes(a.proof_len)
            IN IF ~IsOk(b) THEN MapVerifySeal(b)
               ELSE LET ppp == porep_proof_partitions_try_from_bytes(b.v)
                    IN IF ~IsOk(ppp) THEN MapVerifySeal(ppp)
                       ELSE MapVerifySeal(r[1].returned)
      [] o = PostOp ->
            LET b == try_into_post_proofs_bytes(a.proof_partitions, a.proof_len)
            IN IF ~IsOk(b) THEN MapVerifyPost(b)
               ELSE MapVerifyPost(r[1].returned)
      [] o = PipOp -> MapVerifyPieceInclusionProof(r[1].returned)
      [] o = GpcOp -> MapGeneratePieceCommitment(r[1].returned)

\* C8: under every interleaving of concurrent calls, the response a call is
\* about to return is the one the same call returns when run alone on the
\* same arguments with the same answer of the library; the logger, the one
\* thing the calls share, is only ever appended to.
C8_ConcurrentCallsDoNotInterfere ==
    /\ [](\A t \in Threads :
            Returning(t) => response[t] = AloneResponse(op[t], args[t], invoked[t]))
    /\ [][Len(log') >= Len(log) /\ SubSeq(log', 1, Len(log)) = log]_vars

\* A verify_seal call is about to return while another thread is inside a
\* verify_seal call that got a different answer.
C8_Witness ==
    \E t, u \in Threads :
        /\ t # u
        /\ pc[t] = "seal_return" /\ op[u] = SealOp
        /\ pc[u] \in {"seal_map", "seal_finish", "seal_return"}
        /\ result[t] # result[u]

\* C9: in verify_seal and verify_post the library is called at most once and
\* only after the proof bytes decoded (and, in verify_seal, mapped to a
\* partition count); a call whose decoding failed never calls the library;
\* what verify_post marshals for the library is marshaled after decoding.
C9_DecodeBeforeLibrary ==
    \A t \in Threads :
        op[t] \in {SealOp, PostOp} /\ InCall(t) =>
            /\ Len(invoked[t]) <= 1
            /\ invoked[t] # <<>> =>
                 /\ IsOk(bs[t])
                 /\ invoked[t][1].proof_bytes = bs[t].v
                 /\ op[t] = SealOp =>
                      /\ ~SealProofMalformed(t)
                      /\ invoked[t][1].partitions =
                           bs[t].v \div SINGLE_PARTITION_PROOF_LEN
            /\ bs[t] # None /\ ~IsOk(bs[t]) => invoked[t] = <<>>
            /\ op[t] = SealOp /\ SealProofMalformed(t) => invoked[t] = <<>>
            /\ Returning(t) /\ IsOk(bs[t])
                 /\ (op[t] = SealOp => ~SealProofMalformed(t)) => Len(invoked[t]) = 1

\* verify_post is about to return a decode error without having called the
\* library.
C9_Witness ==
    \E t \in Threads :
        /\ pc[t] = "post_return"
        /\ ~IsOk(bs[t])
        /\ invoked[t] = <<>>
        /\ response[t].status_code = 1

\* C10: each call of verify_seal, verify_post and
\* verify_piece_inclusion_proof has written exactly its "start" entry from
\* its first step on, before any decoding or library call, and exactly one
\* "finish" entry after it, once the response is built and before it is
\* returned; generate_piece_commitment and
\* get_max_user_bytes_per_staged_sector write no entry.
C10_StartAndFinishLogged ==
    \A t \in Threads :
        /\ op[t] \in VerifyOps =>
             IF Returning(t) \/ pc[t] = "done"
             THEN CallLog(t) = <<Entry(t, "start"), Entry(t, "finish")>>
             ELSE CallLog(t) = <<Entry(t, "start")>>
        /\ op[t] \in VerifyOps /\ InCall(t) /\ Len(CallLog(t)) = 2 =>
             response[t] # None
        /\ op[t] \in {GpcOp, MaxOp} => CallLog(t) = <<>>

\* verify_piece_inclusion_proof is about to return a library error, with its
\* two entries in the log.
C10_Witness ==
    \E t \in Threads :
        /\ pc[t] = "pip_return"
        /\ response[t].status_code = 1
        /\ Len(CallLog(t)) = 2

====
